---- MODULE Spec2Model ----
(***************************************************************************)
(* Model of deploy.js of malczak/quokka: the install / uninstall drivers   *)
(* of the Quokka CloudFormation stack, the synthesis of the installer      *)
(* policy, and the AWS backends (IAM, S3, CloudFormation) they talk to.    *)
(*                                                                         *)
(* Strings the code takes apart (action identifiers) are sequences of      *)
(* one-character strings; strings it only builds or compares are TLA+      *)
(* strings.  A JavaScript array is a sequence; a JavaScript Set is a       *)
(* sequence without duplicates in insertion order (its iteration order).   *)
(***************************************************************************)
EXTENDS Naturals, Integers, Sequences, FiniteSets, TLC

(***************************************************************************)
(* Bounds of the model.                                                    *)
(***************************************************************************)
\* invocations of the program (each is one process: install or uninstall)
MaxRuns == 2
\* iterations of one polling loop (getUserPolicy, describeStacks by id)
MaxPolls == 2
\* statements of a policy template drawn by InitSynth
MaxStatements == 2
\* actions of a policy template drawn by InitSynth, all statements together
MaxActions == 2

(***************************************************************************)
(* Consts, deploy.js 15-24, and Parameters, 26-29.                         *)
(***************************************************************************)
Consts ==
    [stackName |-> "Quokka",
     awsRegion |-> "us-east-1",
     bucketNameBase |-> "quokka-data",
     templateFileName |-> "quokka.cform",
     lambdaFileName |-> "quokka-lambda.zip",
     lambdaDeploymentsPrefix |-> "deployments",
     installerPolicyName |-> "QuokkaInstallerPolicy"]

\* uuid() is evaluated once per process: every invocation has its own uid
Uid(r) == IF r = 1 THEN "uid-1" ELSE IF r = 2 THEN "uid-2" ELSE "uid-n"

\* argv.email, stored into Parameters.email by the install case
Email == "a@b.com"

(***************************************************************************)
(* JavaScript helpers.                                                     *)
(***************************************************************************)
Range(s) == {s[i] : i \in 1..Len(s)}

\* Array.prototype.indexOf / String.prototype.indexOf: 0-based, -1 if absent
IndexOf(s, x) ==
    IF \E i \in 1..Len(s) : s[i] = x
    THEN (CHOOSE i \in 1..Len(s) : s[i] = x /\ \A j \in 1..(i - 1) : s[j] # x) - 1
    ELSE -1

\* String.prototype.substring(a, b): arguments clamped to 0..length, swapped
\* when a > b
Substring(s, a, b) ==
    LET ca == IF a < 0 THEN 0 ELSE IF a > Len(s) THEN Len(s) ELSE a
        cb == IF b < 0 THEN 0 ELSE IF b > Len(s) THEN Len(s) ELSE b
        lo == IF ca < cb THEN ca ELSE cb
        hi == IF ca < cb THEN cb ELSE ca
    IN  SubSeq(s, lo + 1, hi)

\* the TLA+ string spelled by a sequence of characters
RECURSIVE Str(_)
Str(cs) == IF cs = <<>> THEN "" ELSE Head(cs) \o Str(Tail(cs))

\* Set.prototype.add on an insertion-ordered Set
SetAdd(set, x) == IF x \in Range(set) THEN set ELSE Append(set, x)

\* Set.prototype.delete
SetDelete(set, x) == SelectSeq(set, LAMBDA y : y # x)

(***************************************************************************)
(* Action identifiers of the policy templates.                             *)
(***************************************************************************)
S3GetObject == <<"s", "3", ":", "G", "e", "t", "O", "b", "j", "e", "c", "t">>
S3PutObject == <<"s", "3", ":", "P", "u", "t", "O", "b", "j", "e", "c", "t">>
S3ListBucket == <<"s", "3", ":", "L", "i", "s", "t", "B", "u", "c", "k", "e", "t">>
IamGetUser == <<"i", "a", "m", ":", "G", "e", "t", "U", "s", "e", "r">>
LogsCreateLogGroup ==
    <<"l", "o", "g", "s", ":", "C", "r", "e", "a", "t", "e",
      "L", "o", "g", "G", "r", "o", "u", "p">>
ApigatewayGET == <<"a", "p", "i", "g", "a", "t", "e", "w", "a", "y", ":", "G", "E", "T">>
\* an identifier without the ":" delimiter
GetObject == <<"G", "e", "t", "O", "b", "j", "e", "c", "t">>

ActionIds == {S3GetObject, S3PutObject, IamGetUser, LogsCreateLogGroup, ApigatewayGET}

(***************************************************************************)
(* Policy documents.  A statement is [Effect, Action, Resource]; Action is *)
(* [isArray, items] (a JSON array, or one JSON string held in items[1]);   *)
(* Resource is [kind, items] with kind "none" (no Resource member),        *)
(* "scalar" (one string, items[1]) or "list" (a JSON array).               *)
(***************************************************************************)
NoResource == [kind |-> "none", items |-> <<>>]
Scalar(arn) == [kind |-> "scalar", items |-> <<arn>>]
List(arns) == [kind |-> "list", items |-> arns]
ActionArray(as) == [isArray |-> TRUE, items |-> as]
ActionString(a) == [isArray |-> FALSE, items |-> <<a>>]

Statement(effect, action, resource) ==
    [Effect |-> effect, Action |-> action, Resource |-> resource]

\* if (statement.Resource): the member is present and truthy
HasResource(statement) == statement.Resource.kind # "none"

(***************************************************************************)
(* Policy synthesis, installQuokka lines 105-137.                          *)
(***************************************************************************)
\* action.substring(0, action.indexOf(':'))
ServiceOf(action) == Str(Substring(action, 0, IndexOf(action, ":")))

\* statement.Action.reduce(..., new Set()): the Set of services, in the
\* order of their first appearance
RECURSIVE GatherServices(_, _)
GatherServices(actions, accum) ==
    IF actions = <<>> THEN accum
    ELSE GatherServices(Tail(actions), SetAdd(accum, ServiceOf(Head(actions))))

\* the requestedActions.add(action) of the same reduce
RECURSIVE AddActions(_, _)
AddActions(actions, requested) ==
    IF actions = <<>> THEN requested
    ELSE AddActions(Tail(actions), SetAdd(requested, Head(actions)))

regionalServices == <<"s3", "iam">>
accountServices == <<"s3", "apigateway">>

\* Arn with the two lists taken for one another
ArnListsSwapped(service, accountId) ==
    LET regionSpecific == IndexOf(accountServices, service) = -1
        usesAccountId == IndexOf(regionalServices, service) = -1
    IN  "arn:aws:" \o service \o ":"
            \o (IF regionSpecific THEN Consts.awsRegion ELSE "") \o ":"
            \o (IF usesAccountId THEN accountId ELSE "") \o ":*"

\* `arn:aws:${service}:${regionSpecific ? region : ''}:${usesAccountId ? id : ''}:*`
Arn(service, accountId) ==
    LET regionSpecific == IndexOf(regionalServices, service) = -1
        usesAccountId == IndexOf(accountServices, service) = -1
    IN  "arn:aws:" \o service \o ":"
            \o (IF regionSpecific THEN Consts.awsRegion ELSE "") \o ":"
            \o (IF usesAccountId THEN accountId ELSE "") \o ":*"

\* services.forEach(...): push every arn that resources does not hold yet
RECURSIVE BuildResources(_, _, _)
BuildResources(services, accountId, resources) ==
    IF services = <<>> THEN resources
    ELSE LET arn == Arn(Head(services), accountId)
         IN  BuildResources(Tail(services), accountId,
                 IF IndexOf(resources, arn) = -1 THEN Append(resources, arn)
                 ELSE resources)

\* ResourceValue without the scalar case
ResourceValueList(resources) == List(resources)

\* statement.Resource = resources.length == 1 ? resources[0] : resources
ResourceValue(resources) ==
    IF Len(resources) = 1 THEN Scalar(resources[1]) ELSE List(resources)

\* SynthesizeStatement without the skip of line 109
SynthesizeStatementAll(statement, accountId) ==
    LET services == GatherServices(statement.Action.items, <<>>)
    IN  IF Len(services) # 0
        THEN [statement EXCEPT
                 !.Resource = ResourceValue(BuildResources(services, accountId, <<>>))]
        ELSE statement

\* one pass of the loop body over a statement
SynthesizeStatement(statement, accountId) ==
    IF HasResource(statement) THEN statement
    ELSE LET services == GatherServices(statement.Action.items, <<>>)
         IN  IF Len(services) # 0
             THEN [statement EXCEPT
                      !.Resource = ResourceValue(BuildResources(services, accountId, <<>>))]
             ELSE statement

\* the policy after the loop
SynthesizePolicy(statements, accountId) ==
    [i \in 1..Len(statements) |-> SynthesizeStatement(statements[i], accountId)]

\* requestedActions after the loop: the actions of the statements that had
\* no Resource
RECURSIVE RequestedActions(_, _)
RequestedActions(statements, requested) ==
    IF statements = <<>> THEN requested
    ELSE RequestedActions(Tail(statements),
             IF HasResource(Head(statements)) THEN requested
             ELSE AddActions(Head(statements).Action.items, requested))

\* statement.Action.reduce is a TypeError unless Action is an array
SynthesisThrows(statements) ==
    \E i \in 1..Len(statements) :
        ~HasResource(statements[i]) /\ ~statements[i].Action.isArray

(***************************************************************************)
(* Policy verification, installQuokka lines 169-185.                       *)
(***************************************************************************)
\* Array.isArray(Action) ? Action : typeof Action == 'string' ? [Action] : false
\* (both JSON forms give the items)
ActionsOf(statement) == statement.Action.items

RECURSIVE DeleteActions(_, _)
DeleteActions(actions, requested) ==
    IF actions = <<>> THEN requested
    ELSE DeleteActions(Tail(actions), SetDelete(requested, Head(actions)))

\* requestedActions after the loop over fetchedPolicy.Statement
RECURSIVE MissingActions(_, _)
MissingActions(fetched, requested) ==
    IF fetched = <<>> THEN requested
    ELSE MissingActions(Tail(fetched), DeleteActions(ActionsOf(Head(fetched)), requested))

(***************************************************************************)
(* State.                                                                  *)
(***************************************************************************)
VARIABLES
    \* the invocation (one process per invocation, deploy.js 324-338)
    run,              \* number of invocations started so far
    task,             \* argv.task of the current one: "install", "uninstall"
    pc,               \* the await it stands at; "done" returned, "failed" threw
    err,              \* message of the error it threw, "" if none
    accountId,        \* installQuokka: accountId
    policy,           \* installQuokka: policy.Statement
    requestedActions, \* installQuokka: requestedActions
    fetchedPolicy,    \* installQuokka: fetchedPolicy.Statement
    stack,            \* the const stack of either driver
    result,           \* uninstallQuokka: result of the wait
    bucket,           \* installQuokka: the request parameter object `bucket`
    uploads,          \* the two putObject requests of Promise.all
    polls,            \* iterations of the current polling loop
    \* the environment
    template,         \* installer-policy.json: its Statement array
    userArn,          \* the caller's identity
    storedPolicy,     \* IAM: the stored QuokkaInstallerPolicy, <<>> if none
    priorPolicy,      \* IAM: the version before it, which a read may still see
    cfn,              \* CloudFormation: the latest stack named Quokka
    deletePending,    \* CloudFormation: deleteStack accepted, not yet started
    buckets,          \* S3: existing buckets
    objects,          \* S3: stored objects
    file,             \* quokka.json, <<>> if absent
    \* what the invocations did (observation only)
    trace,            \* requests of the current invocation, in order
    putDoc,           \* PolicyDocument of its putUserPolicy request, <<>> if none
    putFailed,        \* its putUserPolicy request was rejected
    lacking,          \* actions logged as missing by its verification
    reported,         \* outputs its install logged for an existing stack
    waited,           \* status of the descriptor its wait returned, "" if none
    describeFault,    \* its describeStacks by name failed though a stack exists
    createReq,        \* parameters of its createStack request, <<>> if none
    validateReq,      \* parameters of its validateTemplate request, <<>> if none
    probed,           \* outcome of its headBucket probe: "", "ok", "failed"
    created,          \* createStack requests of all invocations
    history           \* the finished invocations

vars ==
    <<run, task, pc, err, accountId, policy, requestedActions, fetchedPolicy,
      stack, result, bucket, uploads, polls, template, userArn, storedPolicy,
      priorPolicy, cfn, deletePending, buckets, objects, file, trace, putDoc, putFailed,
      lacking, reported, waited, describeFault, createReq, validateReq, probed, created, history>>

locals ==
    <<accountId, policy, requestedActions, fetchedPolicy, stack, result, bucket,
      uploads, polls>>
iam == <<userArn, storedPolicy, priorPolicy>>
s3 == <<buckets, objects>>
cform == <<cfn, deletePending>>
observed ==
    <<putDoc, putFailed, lacking, reported, waited, describeFault, createReq,
      validateReq, probed>>

(***************************************************************************)
(* The backends.                                                           *)
(***************************************************************************)
NoStack ==
    [StackName |-> "", StackId |-> 0, StackStatus |-> "NONE",
     CreationTime |-> 0, Outputs |-> <<>>]

StackOutputs(id) == <<[OutputKey |-> "ApiUrl", OutputValue |-> id]>>

InProgress == {"CREATE_IN_PROGRESS", "ROLLBACK_IN_PROGRESS", "DELETE_IN_PROGRESS"}

\* describeStacks({StackName: name}): a deleted stack is found by id only
DescribeByName(name) ==
    IF cfn.StackName = name /\ cfn.StackStatus \notin {"NONE", "DELETE_COMPLETE"}
    THEN <<cfn>> ELSE <<>>

\* describeStacks({StackName: stackId})
DescribeById(id) ==
    IF cfn.StackId = id /\ cfn.StackStatus # "NONE" THEN <<cfn>> ELSE <<>>

UserArns ==
    {[service |-> "iam", account |-> "123456789012", resource |-> "user/quokka"]}

\* /^arn:aws:iam:[^:]*:([0-9]+):.*$/.exec(user.User.Arn): match[1], or no
\* match (<<>>)
AccountIdOf(arn) ==
    IF arn.service = "iam" /\ arn.account # "" THEN <<arn.account>> ELSE <<>>

(***************************************************************************)
(* Names of the staging area, lines 214 and 257, 268-273.                  *)
(***************************************************************************)
BucketName(r) == "tmp-" \o Consts.bucketNameBase \o "-" \o Uid(r)
KeyOf(fileName) == Consts.lambdaDeploymentsPrefix \o "/" \o fileName
TemplateURL(bucketName, key) == "http://s3.amazonaws.com/" \o bucketName \o "/" \o key

(***************************************************************************)
(* The policy templates and stored policies of Init.                       *)
(***************************************************************************)
DeclaredArn == "arn:aws:iam::123456789012:user/quokka"

Templates ==
    { <<Statement("Allow", ActionArray(<<LogsCreateLogGroup, S3ListBucket>>), NoResource)>>,
      <<Statement("Allow", ActionArray(<<IamGetUser>>), Scalar(DeclaredArn)),
        Statement("Allow", ActionArray(<<S3GetObject, S3PutObject>>), NoResource)>>,
      <<Statement("Allow", ActionString(S3GetObject), NoResource)>>,
      <<Statement("Allow", ActionArray(<<GetObject>>), NoResource)>> }

\* a policy stored under the installer's name by an earlier version
StalePolicy == <<Statement("Allow", ActionString(S3GetObject), Scalar("*"))>>

(***************************************************************************)
(* Init: no invocation yet, no stack, possibly a policy left under the     *)
(* installer's name, and possibly a bucket that already holds the name the *)
(* first run stages under.                                                 *)
(***************************************************************************)
NoBucketParams == [Bucket |-> "", Key |-> "", Body |-> ""]
NoUploads == <<>>

InitLocals ==
    /\ accountId = ""
    /\ policy = <<>>
    /\ requestedActions = <<>>
    /\ fetchedPolicy = <<>>
    /\ stack = NoStack
    /\ result = NoStack
    /\ bucket = NoBucketParams
    /\ uploads = NoUploads
    /\ polls = 0

InitObserved ==
    /\ trace = <<>>
    /\ putDoc = <<>>
    /\ putFailed = FALSE
    /\ lacking = <<>>
    /\ reported = <<>>
    /\ waited = ""
    /\ describeFault = FALSE
    /\ createReq = <<>>
    /\ validateReq = <<>>
    /\ probed = ""

InitBackends ==
    /\ cfn = NoStack
    /\ deletePending = FALSE
    /\ objects = {}
    /\ file = <<>>
    /\ priorPolicy = <<>>

Init ==
    /\ run = 0 /\ task = "none" /\ pc = "idle" /\ err = ""
    /\ InitLocals /\ InitObserved /\ InitBackends
    /\ buckets \in {{}, {BucketName(1)}}
    /\ template \in Templates
    /\ userArn \in UserArns
    /\ storedPolicy \in {<<>>, <<StalePolicy>>}
    /\ created = 0
    /\ history = <<>>

(***************************************************************************)
(* The entry point, deploy.js 324-338: a new process runs one task.  The   *)
(* previous process has ended: its driver returned or threw and none of    *)
(* its requests is in flight.                                              *)
(***************************************************************************)
Ended ==
    /\ pc \in {"idle", "done", "failed"}
    /\ \A i \in 1..Len(uploads) : uploads[i].state # "pending"

\* a new process starts from the initial values of the locals
ResetLocals ==
    /\ accountId' = ""
    /\ policy' = <<>>
    /\ requestedActions' = <<>>
    /\ fetchedPolicy' = <<>>
    /\ stack' = NoStack
    /\ result' = NoStack
    /\ bucket' = NoBucketParams
    /\ uploads' = NoUploads
    /\ polls' = 0

ResetObserved ==
    /\ trace' = <<>>
    /\ putDoc' = <<>>
    /\ putFailed' = FALSE
    /\ lacking' = <<>>
    /\ reported' = <<>>
    /\ waited' = ""
    /\ describeFault' = FALSE
    /\ createReq' = <<>>
    /\ validateReq' = <<>>
    /\ probed' = ""

Finished == [task |-> task, pc |-> pc, waited |-> waited]

Start(t, first) ==
    /\ Ended
    /\ run < MaxRuns
    /\ run' = run + 1
    /\ task' = t
    /\ pc' = first
    /\ err' = ""
    /\ history' = IF run = 0 THEN history ELSE Append(history, Finished)
    /\ ResetLocals /\ ResetObserved
    /\ UNCHANGED <<template, iam, cform, s3, file, created>>

StartInstall == Start("install", "getUser")
StartUninstall == Start("uninstall", "describeStacks")

Throw(message) == pc' = "failed" /\ err' = message
Request(name) == trace' = Append(trace, name)
\* a request of a polling loop: the trace names the loop's request once,
\* however many iterations the loop makes (polls counts them)
Poll(name) == trace' = IF polls = 0 THEN Append(trace, name) ELSE trace

(***************************************************************************)
(* installQuokka, lines 89-185: identity, policy synthesis, installation   *)
(* and verification of the policy.                                         *)
(***************************************************************************)
\* lines 99-101
GetUser ==
    /\ task = "install" /\ pc = "getUser"
    /\ Request("getUser")
    /\ \E ok \in BOOLEAN :
          IF ~ok THEN Throw("getUser") /\ UNCHANGED accountId
          ELSE IF AccountIdOf(userArn) = <<>>
               THEN Throw("TypeError") /\ UNCHANGED accountId
               ELSE /\ accountId' = AccountIdOf(userArn)[1]
                    /\ pc' = "synthesize" /\ UNCHANGED err
    /\ UNCHANGED <<run, task, policy, requestedActions, fetchedPolicy, stack, result,
                   bucket, uploads, polls, template, iam, cform, s3, file, observed,
                   created, history>>

\* lines 105-137
Synthesize ==
    /\ task = "install" /\ pc = "synthesize"
    /\ IF SynthesisThrows(template)
       THEN Throw("TypeError") /\ UNCHANGED <<policy, requestedActions>>
       ELSE /\ policy' = SynthesizePolicy(template, accountId)
            /\ requestedActions' = RequestedActions(template, <<>>)
            /\ pc' = "putUserPolicy" /\ UNCHANGED err
    /\ UNCHANGED <<run, task, accountId, fetchedPolicy, stack, result, bucket, uploads,
                   polls, template, iam, cform, s3, file, trace, observed, created,
                   history>>

\* lines 141-150: a rejected write is logged and the driver goes on
PutUserPolicy ==
    /\ task = "install" /\ pc = "putUserPolicy"
    /\ Request("putUserPolicy")
    /\ putDoc' = <<policy>>
    /\ \E ok \in BOOLEAN :
          IF ok THEN /\ storedPolicy' = <<policy>>
                     /\ priorPolicy' = storedPolicy
                     /\ UNCHANGED putFailed
          ELSE /\ putFailed' = TRUE
               /\ UNCHANGED <<storedPolicy, priorPolicy>>
    /\ pc' = "getUserPolicy"
    /\ polls' = 0
    /\ UNCHANGED <<run, task, err, accountId, policy, requestedActions, fetchedPolicy,
                   stack, result, bucket, uploads, template, userArn, cform, s3, file,
                   lacking, reported, waited, describeFault, createReq, validateReq, probed, created, history>>

\* GetUserPolicy with a cap on the fetches: the failed fetch after the last
\* one allowed ends the install
GetUserPolicyGivesUp ==
    /\ task = "install" /\ pc = "getUserPolicy"
    /\ Poll("getUserPolicy")
    /\ \/ /\ fetchedPolicy' = <<>>
          /\ IF polls < MaxPolls
             THEN polls' = polls + 1 /\ UNCHANGED <<pc, err>>
             ELSE polls' = 0 /\ Throw("PolicyInstall")
          /\ UNCHANGED <<requestedActions, lacking>>
       \/ \E doc \in {storedPolicy, priorPolicy} \ {<<>>} :
             /\ fetchedPolicy' = doc
             /\ requestedActions' = MissingActions(doc[1], requestedActions)
             /\ lacking' = requestedActions'
             /\ pc' = "describeStacks"
             /\ polls' = 0
             /\ UNCHANGED err
    /\ UNCHANGED <<run, task, accountId, policy, stack, result, bucket, uploads,
                   template, iam, cform, s3, file, putDoc, putFailed, reported, waited,
                   describeFault, createReq, validateReq, probed, created, history>>

\* GetUserPolicy that puts the policy again when the fetch failed
GetUserPolicyPutAgain ==
    /\ task = "install" /\ pc = "getUserPolicy"
    /\ Poll("getUserPolicy")
    /\ \/ /\ polls < MaxPolls
          /\ polls' = polls + 1
          /\ fetchedPolicy' = <<>>
          /\ pc' = "putUserPolicy"
          /\ UNCHANGED <<requestedActions, lacking>>
       \/ \E doc \in {storedPolicy, priorPolicy} \ {<<>>} :
             /\ fetchedPolicy' = doc
             /\ requestedActions' = MissingActions(doc[1], requestedActions)
             /\ lacking' = requestedActions'
             /\ pc' = "describeStacks"
             /\ polls' = 0
    /\ UNCHANGED <<run, task, err, accountId, policy, stack, result, bucket, uploads,
                   template, iam, cform, s3, file, putDoc, putFailed, reported, waited,
                   describeFault, createReq, validateReq, probed, created, history>>

\* lines 154-185: one fetch of the loop; the fetch that succeeds leaves the
\* loop, and verification only logs the actions that are missing
GetUserPolicy ==
    /\ task = "install" /\ pc = "getUserPolicy"
    /\ Poll("getUserPolicy")
    /\ \/ /\ polls < MaxPolls
          /\ polls' = polls + 1
          /\ fetchedPolicy' = <<>>
          /\ UNCHANGED <<pc, requestedActions, lacking>>
       \/ \E doc \in {storedPolicy, priorPolicy} \ {<<>>} :
             /\ fetchedPolicy' = doc
             /\ requestedActions' = MissingActions(doc[1], requestedActions)
             /\ lacking' = requestedActions'
             /\ pc' = "describeStacks"
             /\ polls' = 0
    /\ UNCHANGED <<run, task, err, accountId, policy, stack, result, bucket, uploads,
                   template, iam, cform, s3, file, putDoc, putFailed, reported, waited,
                   describeFault, createReq, validateReq, probed, created, history>>

\* WaitForStackStatus with the test of line 50 inverted: the loop ends on
\* the status waited on
WaitForStackStatusInverted(stackId, status) ==
    {[kind |-> "throw", desc |-> NoStack]}
    \cup { [kind |-> IF d.StackStatus = status THEN "return" ELSE "again", desc |-> d] :
             d \in Range(DescribeById(stackId)) }

(***************************************************************************)
(* waitForStackStatus, lines 38-54: the outcomes of one iteration of the   *)
(* loop.  The describe throws, or answers the status waited on (again),    *)
(* or answers another status, which ends the loop (return).                *)
(***************************************************************************)
WaitForStackStatus(stackId, status) ==
    {[kind |-> "throw", desc |-> NoStack]}
    \cup { [kind |-> IF d.StackStatus # status THEN "return" ELSE "again", desc |-> d] :
             d \in Range(DescribeById(stackId)) }

(***************************************************************************)
(* installQuokka, lines 187-322: the existing stack, staging, creation.    *)
(***************************************************************************)
\* InstallDescribeStacks without the return of line 207
InstallDescribeStacksNoReturn ==
    /\ task = "install" /\ pc = "describeStacks"
    /\ Request("describeStacks")
    /\ \E fault \in BOOLEAN :
          LET found == DescribeByName(Consts.stackName) IN
          /\ IF found # <<>> /\ ~fault
             THEN stack' = found[1] /\ reported' = found[1].Outputs
                  /\ UNCHANGED describeFault
             ELSE describeFault' = (found # <<>>) /\ UNCHANGED <<stack, reported>>
          /\ bucket' = [NoBucketParams EXCEPT !.Bucket = BucketName(run)]
          /\ pc' = "headBucket"
    /\ UNCHANGED <<run, task, err, accountId, policy, requestedActions, fetchedPolicy,
                   result, uploads, polls, template, iam, cform, s3, file, putDoc,
                   putFailed, lacking, waited, createReq, validateReq, probed, created, history>>

\* InstallDescribeStacks that returns only for a stack in CREATE_COMPLETE and
\* goes on to staging for a stack in any other status
InstallDescribeStacksCompleteOnly ==
    /\ task = "install" /\ pc = "describeStacks"
    /\ Request("describeStacks")
    /\ \E fault \in BOOLEAN :
          LET found == DescribeByName(Consts.stackName) IN
          IF found # <<>> /\ ~fault /\ found[1].StackStatus = "CREATE_COMPLETE"
          THEN /\ stack' = found[1]
               /\ reported' = found[1].Outputs
               /\ pc' = "done"
               /\ UNCHANGED <<bucket, describeFault>>
          ELSE /\ describeFault' = (found # <<>> /\ fault)
               /\ bucket' = [NoBucketParams EXCEPT !.Bucket = BucketName(run)]
               /\ pc' = "headBucket"
               /\ UNCHANGED <<stack, reported>>
    /\ UNCHANGED <<run, task, err, accountId, policy, requestedActions, fetchedPolicy,
                   result, uploads, polls, template, iam, cform, s3, file, putDoc,
                   putFailed, lacking, waited, createReq, validateReq, probed, created,
                   history>>

\* InstallDescribeStacks whose catch block rethrows a failure that is not
\* "stack does not exist"
InstallDescribeStacksRethrows ==
    /\ task = "install" /\ pc = "describeStacks"
    /\ Request("describeStacks")
    /\ \E fault \in BOOLEAN :
          LET found == DescribeByName(Consts.stackName) IN
          IF found # <<>> /\ ~fault
          THEN /\ stack' = found[1]
               /\ reported' = found[1].Outputs
               /\ pc' = "done"
               /\ UNCHANGED <<err, bucket, describeFault>>
          ELSE IF found # <<>>
          THEN /\ describeFault' = TRUE
               /\ Throw("describeStacks")
               /\ UNCHANGED <<stack, reported, bucket>>
          ELSE /\ describeFault' = FALSE
               /\ bucket' = [NoBucketParams EXCEPT !.Bucket = BucketName(run)]
               /\ pc' = "headBucket"
               /\ UNCHANGED <<err, stack, reported>>
    /\ UNCHANGED <<run, task, accountId, policy, requestedActions, fetchedPolicy,
                   result, uploads, polls, template, iam, cform, s3, file, putDoc,
                   putFailed, lacking, waited, createReq, validateReq, probed, created,
                   history>>

\* lines 187-220: any throw inside the try block is "stack not found"
InstallDescribeStacks ==
    /\ task = "install" /\ pc = "describeStacks"
    /\ Request("describeStacks")
    /\ \E fault \in BOOLEAN :
          LET found == DescribeByName(Consts.stackName) IN
          IF found # <<>> /\ ~fault
          THEN /\ stack' = found[1]
               /\ reported' = found[1].Outputs
               /\ pc' = "done"
               /\ UNCHANGED <<bucket, describeFault>>
          ELSE /\ describeFault' = (found # <<>>)
               /\ bucket' = [NoBucketParams EXCEPT !.Bucket = BucketName(run)]
               /\ pc' = "headBucket"
               /\ UNCHANGED <<stack, reported>>
    /\ UNCHANGED <<run, task, err, accountId, policy, requestedActions, fetchedPolicy,
                   result, uploads, polls, template, iam, cform, s3, file, putDoc,
                   putFailed, lacking, waited, createReq, validateReq, probed, created, history>>

\* HeadBucket whose createBucket is not in the catch block: it follows the
\* probe whatever its outcome
HeadBucketThenCreate ==
    /\ task = "install" /\ pc = "headBucket"
    /\ Request("headBucket")
    /\ \/ bucket.Bucket \in buckets /\ probed' = "ok"
       \/ probed' = "failed"
    /\ pc' = "createBucket"
    /\ UNCHANGED <<run, task, err, locals, template, iam, cform, s3, file, putDoc,
                   putFailed, lacking, reported, waited, describeFault, createReq,
                   validateReq, created, history>>

\* lines 221-224
HeadBucket ==
    /\ task = "install" /\ pc = "headBucket"
    /\ Request("headBucket")
    /\ \/ bucket.Bucket \in buckets /\ probed' = "ok" /\ pc' = "pack"
       \/ probed' = "failed" /\ pc' = "createBucket"
    /\ UNCHANGED <<run, task, err, locals, template, iam, cform, s3, file, putDoc,
                   putFailed, lacking, reported, waited, describeFault, createReq,
                   validateReq, created, history>>

\* lines 224-227
CreateBucket ==
    /\ task = "install" /\ pc = "createBucket"
    /\ Request("createBucket")
    /\ \/ buckets' = buckets \cup {bucket.Bucket} /\ pc' = "pack" /\ UNCHANGED err
       \/ Throw("createBucket") /\ UNCHANGED buckets
    /\ UNCHANGED <<run, task, locals, template, iam, cform, objects, file, observed,
                   created, history>>

\* lines 229-250: npm pack and the packager
Pack ==
    /\ task = "install" /\ pc = "pack"
    /\ Request("pack")
    /\ \/ pc' = "putObject" /\ UNCHANGED err
       \/ Throw("pack")
    /\ UNCHANGED <<run, task, locals, template, iam, cform, s3, file, observed,
                   created, history>>

\* lines 252-263: map() calls Object.assign(bucket, {Key, Body}) and
\* s3.putObject(bucket) for the archive, then for the template; both requests
\* hold the one object `bucket`.  A request reads its parameters when it is
\* built: at the call (early), or once map() has returned (~early), which the
\* SDK decides.
PutObjects ==
    /\ task = "install" /\ pc = "putObject"
    /\ trace' = trace \o <<"putObject", "putObject">>
    /\ LET first == [bucket EXCEPT !.Key = KeyOf(Consts.lambdaFileName),
                                   !.Body = Consts.lambdaFileName]
           second == [first EXCEPT !.Key = KeyOf(Consts.templateFileName),
                                   !.Body = Consts.templateFileName]
       IN  /\ bucket' = second
           /\ \E early \in BOOLEAN :
                 uploads' = <<[params |-> IF early THEN first ELSE second, state |-> "pending"],
                              [params |-> second, state |-> "pending"]>>
    /\ pc' = "uploading"
    /\ UNCHANGED <<run, task, err, accountId, policy, requestedActions, fetchedPolicy,
                   stack, result, polls, template, iam, cform, s3, file, observed,
                   created, history>>

\* PutObjectCompletes with Promise.allSettled in place of Promise.all: the
\* driver goes on once both requests have settled
PutObjectCompletesSettled(i) ==
    /\ i \in 1..Len(uploads)
    /\ uploads[i].state = "pending"
    /\ \/ /\ uploads[i].params.Bucket \in buckets
          /\ objects' = { o \in objects : ~(o.Bucket = uploads[i].params.Bucket
                                             /\ o.Key = uploads[i].params.Key) }
                            \cup {uploads[i].params}
          /\ uploads' = [uploads EXCEPT ![i].state = "ok"]
       \/ /\ uploads' = [uploads EXCEPT ![i].state = "failed"]
          /\ UNCHANGED objects
    /\ IF pc = "uploading"
          /\ \A j \in 1..Len(uploads) : j # i => uploads[j].state # "pending"
       THEN pc' = "validateTemplate"
       ELSE UNCHANGED pc
    /\ UNCHANGED <<run, task, err, accountId, policy, requestedActions, fetchedPolicy,
                   stack, result, bucket, polls, template, iam, cform, buckets, file,
                   trace, observed, created, history>>

\* one putObject request completes; Promise.all rejects with the first
\* failure and resolves when both have succeeded (lines 255-266)
PutObjectCompletes(i) ==
    /\ i \in 1..Len(uploads)
    /\ uploads[i].state = "pending"
    /\ \/ /\ uploads[i].params.Bucket \in buckets
          /\ objects' = { o \in objects : ~(o.Bucket = uploads[i].params.Bucket
                                             /\ o.Key = uploads[i].params.Key) }
                            \cup {uploads[i].params}
          /\ uploads' = [uploads EXCEPT ![i].state = "ok"]
          /\ IF pc = "uploading" /\ \A j \in 1..Len(uploads) : j # i => uploads[j].state = "ok"
             THEN pc' = "validateTemplate"
             ELSE UNCHANGED pc
          /\ UNCHANGED err
       \/ /\ uploads' = [uploads EXCEPT ![i].state = "failed"]
          /\ IF pc = "uploading" THEN Throw("putObject") ELSE UNCHANGED <<pc, err>>
          /\ UNCHANGED objects
    /\ UNCHANGED <<run, task, accountId, policy, requestedActions, fetchedPolicy, stack,
                   result, bucket, polls, template, iam, cform, buckets, file, trace,
                   observed, created, history>>

\* ValidateTemplate with the rejection caught and logged
ValidateTemplateLogged ==
    /\ task = "install" /\ pc = "validateTemplate"
    /\ Request("validateTemplate")
    /\ validateReq' =
          <<[TemplateURL |-> TemplateURL(BucketName(run), KeyOf(Consts.templateFileName))]>>
    /\ \/ /\ \E o \in objects : o.Bucket = BucketName(run)
                                 /\ o.Key = KeyOf(Consts.templateFileName)
          /\ pc' = "createStack" /\ UNCHANGED err
       \/ pc' = "createStack" /\ err' = "validateTemplate"
    /\ UNCHANGED <<run, task, locals, template, iam, cform, s3, file, putDoc, putFailed,
                   lacking, reported, waited, describeFault, createReq, probed, created,
                   history>>

\* lines 268-275
ValidateTemplate ==
    /\ task = "install" /\ pc = "validateTemplate"
    /\ Request("validateTemplate")
    /\ validateReq' =
          <<[TemplateURL |-> TemplateURL(BucketName(run), KeyOf(Consts.templateFileName))]>>
    /\ \/ /\ \E o \in objects : o.Bucket = BucketName(run)
                                 /\ o.Key = KeyOf(Consts.templateFileName)
          /\ pc' = "createStack" /\ UNCHANGED err
       \/ Throw("validateTemplate")
    /\ UNCHANGED <<run, task, locals, template, iam, cform, s3, file, putDoc, putFailed,
                   lacking, reported, waited, describeFault, createReq, probed, created,
                   history>>

\* lines 277-301
CreateStack ==
    /\ task = "install" /\ pc = "createStack"
    /\ Request("createStack")
    /\ created' = created + 1
    /\ createReq' =
          <<[TemplateURL |-> TemplateURL(BucketName(run), KeyOf(Consts.templateFileName)),
             StackName |-> Consts.stackName,
             Parameters |->
                <<[ParameterKey |-> "Email", ParameterValue |-> Email],
                  [ParameterKey |-> "UID", ParameterValue |-> Uid(run)],
                  [ParameterKey |-> "CodeBucket", ParameterValue |-> BucketName(run)],
                  [ParameterKey |-> "CodeKey",
                   ParameterValue |-> KeyOf(Consts.lambdaFileName)]>>,
             Capabilities |-> <<"CAPABILITY_IAM">>]>>
    /\ \/ /\ DescribeByName(Consts.stackName) = <<>>
          /\ cfn' = [StackName |-> Consts.stackName, StackId |-> cfn.StackId + 1,
                     StackStatus |-> "CREATE_IN_PROGRESS",
                     CreationTime |-> cfn.StackId + 1, Outputs |-> <<>>]
          /\ deletePending' = FALSE
          /\ result' = [NoStack EXCEPT !.StackId = cfn.StackId + 1]
          /\ pc' = "wait"
          /\ polls' = 0
          /\ UNCHANGED err
       \/ /\ Throw("createStack")
          /\ UNCHANGED <<cform, result, polls>>
    /\ UNCHANGED <<run, task, accountId, policy, requestedActions, fetchedPolicy, stack,
                   bucket, uploads, template, iam, s3, file, putDoc, putFailed, lacking,
                   reported, waited, describeFault, validateReq, probed, history>>

\* StackInfo without the outputs of the stack
StackInfoNoOutputs(d) ==
    [name |-> d.StackName, id |-> d.StackId, createdAt |-> d.CreationTime,
     outputs |-> <<>>]

\* the record written to quokka.json, lines 312-319
StackInfo(d) ==
    [name |-> d.StackName, id |-> d.StackId, createdAt |-> d.CreationTime,
     outputs |-> d.Outputs]

\* InstallWait that issues createStack again when the stack did not reach
\* CREATE_COMPLETE
InstallWaitRetry ==
    /\ task = "install" /\ pc = "wait"
    /\ \E o \in WaitForStackStatus(result.StackId, "CREATE_IN_PROGRESS") :
          \/ /\ o.kind = "throw"
             /\ Poll("describeStacksById")
             /\ Throw("describeStacks")
             /\ polls' = 0
             /\ UNCHANGED <<stack, file, waited>>
          \/ /\ o.kind = "again"
             /\ polls < MaxPolls
             /\ Poll("describeStacksById")
             /\ polls' = polls + 1
             /\ UNCHANGED <<pc, err, stack, file, waited>>
          \/ /\ o.kind = "return"
             /\ stack' = o.desc
             /\ waited' = o.desc.StackStatus
             /\ polls' = 0
             /\ IF o.desc.StackStatus # "CREATE_COMPLETE"
                THEN /\ Poll("describeStacksById")
                     /\ pc' = "createStack"
                     /\ UNCHANGED <<err, file>>
                ELSE /\ trace' = (IF polls = 0 THEN Append(trace, "describeStacksById")
                                  ELSE trace) \o <<"writeFile">>
                     /\ file' = <<StackInfo(o.desc)>>
                     /\ pc' = "done"
                     /\ UNCHANGED err
    /\ UNCHANGED <<run, task, accountId, policy, requestedActions, fetchedPolicy, result,
                   bucket, uploads, template, iam, cform, s3, putDoc, putFailed, lacking,
                   reported, describeFault, createReq, validateReq, probed, created, history>>

\* InstallWait with a cap on the polls: the poll after the last one allowed
\* raises a timeout error
InstallWaitTimeout ==
    /\ task = "install" /\ pc = "wait"
    /\ \E o \in WaitForStackStatus(result.StackId, "CREATE_IN_PROGRESS") :
          \/ /\ o.kind = "throw"
             /\ Poll("describeStacksById")
             /\ Throw("describeStacks")
             /\ polls' = 0
             /\ UNCHANGED <<stack, file, waited>>
          \/ /\ o.kind = "again"
             /\ Poll("describeStacksById")
             /\ IF polls < MaxPolls
                THEN polls' = polls + 1 /\ UNCHANGED <<pc, err>>
                ELSE polls' = 0 /\ Throw("ProvisioningTimeout")
             /\ UNCHANGED <<stack, file, waited>>
          \/ /\ o.kind = "return"
             /\ stack' = o.desc
             /\ waited' = o.desc.StackStatus
             /\ polls' = 0
             /\ IF o.desc.StackStatus # "CREATE_COMPLETE"
                THEN /\ Poll("describeStacksById")
                     /\ Throw("CloudFormation not created")
                     /\ UNCHANGED file
                ELSE /\ trace' = (IF polls = 0 THEN Append(trace, "describeStacksById")
                                  ELSE trace) \o <<"writeFile">>
                     /\ file' = <<StackInfo(o.desc)>>
                     /\ pc' = "done"
                     /\ UNCHANGED err
    /\ UNCHANGED <<run, task, accountId, policy, requestedActions, fetchedPolicy, result,
                   bucket, uploads, template, iam, cform, s3, putDoc, putFailed, lacking,
                   reported, describeFault, createReq, validateReq, probed, created, history>>

\* InstallWait without the status check of lines 304-306
InstallWaitNoCheck ==
    /\ task = "install" /\ pc = "wait"
    /\ \E o \in WaitForStackStatus(result.StackId, "CREATE_IN_PROGRESS") :
          \/ /\ o.kind = "throw"
             /\ Poll("describeStacksById")
             /\ Throw("describeStacks")
             /\ polls' = 0
             /\ UNCHANGED <<stack, file, waited>>
          \/ /\ o.kind = "again"
             /\ polls < MaxPolls
             /\ Poll("describeStacksById")
             /\ polls' = polls + 1
             /\ UNCHANGED <<pc, err, stack, file, waited>>
          \/ /\ o.kind = "return"
             /\ stack' = o.desc
             /\ waited' = o.desc.StackStatus
             /\ polls' = 0
             /\ trace' = (IF polls = 0 THEN Append(trace, "describeStacksById")
                          ELSE trace) \o <<"writeFile">>
             /\ file' = <<StackInfo(o.desc)>>
             /\ pc' = "done"
             /\ UNCHANGED err
    /\ UNCHANGED <<run, task, accountId, policy, requestedActions, fetchedPolicy, result,
                   bucket, uploads, template, iam, cform, s3, putDoc, putFailed, lacking,
                   reported, describeFault, createReq, validateReq, probed, created, history>>

\* lines 303-319: one iteration of the wait; on return, the status check and
\* the write of quokka.json
InstallWait ==
    /\ task = "install" /\ pc = "wait"
    /\ \E o \in WaitForStackStatus(result.StackId, "CREATE_IN_PROGRESS") :
          \/ /\ o.kind = "throw"
             /\ Poll("describeStacksById")
             /\ Throw("describeStacks")
             /\ polls' = 0
             /\ UNCHANGED <<stack, file, waited>>
          \/ /\ o.kind = "again"
             /\ polls < MaxPolls
             /\ Poll("describeStacksById")
             /\ polls' = polls + 1
             /\ UNCHANGED <<pc, err, stack, file, waited>>
          \/ /\ o.kind = "return"
             /\ stack' = o.desc
             /\ waited' = o.desc.StackStatus
             /\ polls' = 0
             /\ IF o.desc.StackStatus # "CREATE_COMPLETE"
                THEN /\ Poll("describeStacksById")
                     /\ Throw("CloudFormation not created")
                     /\ UNCHANGED file
                ELSE /\ trace' = (IF polls = 0 THEN Append(trace, "describeStacksById")
                                  ELSE trace) \o <<"writeFile">>
                     /\ file' = <<StackInfo(o.desc)>>
                     /\ pc' = "done"
                     /\ UNCHANGED err
    /\ UNCHANGED <<run, task, accountId, policy, requestedActions, fetchedPolicy, result,
                   bucket, uploads, template, iam, cform, s3, putDoc, putFailed, lacking,
                   reported, describeFault, createReq, validateReq, probed, created, history>>

(***************************************************************************)
(* uninstallQuokka, lines 56-87.                                           *)
(***************************************************************************)
\* UninstallDescribeStacks that lets the failure of the describe escape
UninstallDescribeStacksThrows ==
    /\ task = "uninstall" /\ pc = "describeStacks"
    /\ Request("describeStacks")
    /\ \E fault \in BOOLEAN :
          LET found == DescribeByName(Consts.stackName) IN
          IF found # <<>> /\ ~fault
          THEN /\ stack' = found[1]
               /\ pc' = "deleteStack"
               /\ UNCHANGED <<describeFault, err>>
          ELSE /\ describeFault' = (found # <<>>)
               /\ Throw("describeStacks")
               /\ UNCHANGED stack
    /\ UNCHANGED <<run, task, accountId, policy, requestedActions, fetchedPolicy,
                   result, bucket, uploads, polls, template, iam, cform, s3, file,
                   putDoc, putFailed, lacking, reported, waited, createReq, validateReq, probed, created,
                   history>>

\* lines 63-71: any failure of the describe is "stack not found"
UninstallDescribeStacks ==
    /\ task = "uninstall" /\ pc = "describeStacks"
    /\ Request("describeStacks")
    /\ \E fault \in BOOLEAN :
          LET found == DescribeByName(Consts.stackName) IN
          IF found # <<>> /\ ~fault
          THEN /\ stack' = found[1]
               /\ pc' = "deleteStack"
               /\ UNCHANGED describeFault
          ELSE /\ describeFault' = (found # <<>>)
               /\ pc' = "done"
               /\ UNCHANGED stack
    /\ UNCHANGED <<run, task, err, accountId, policy, requestedActions, fetchedPolicy,
                   result, bucket, uploads, polls, template, iam, cform, s3, file,
                   putDoc, putFailed, lacking, reported, waited, createReq, validateReq, probed, created,
                   history>>

\* lines 73-78: the request is accepted and the deletion starts later
DeleteStack ==
    /\ task = "uninstall" /\ pc = "deleteStack"
    /\ Request("deleteStack")
    /\ \/ /\ deletePending' = (DescribeByName(Consts.stackName) # <<>>)
          /\ pc' = "wait"
          /\ polls' = 0
          /\ UNCHANGED err
       \/ /\ Throw("deleteStack")
          /\ UNCHANGED <<deletePending, polls>>
    /\ UNCHANGED <<run, task, accountId, policy, requestedActions, fetchedPolicy, stack,
                   result, bucket, uploads, template, iam, cfn, s3, file, observed,
                   created, history>>

\* the test of line 82, on the descriptor `stack` that line 70 took from the
\* describe by name
NotDeleted(described, returned) == described.StackStatus # "DELETE_COMPLETE"

\* lines 80-86: one iteration of the wait; on return, the status check
UninstallWait ==
    /\ task = "uninstall" /\ pc = "wait"
    /\ Poll("describeStacksById")
    /\ \E o \in WaitForStackStatus(stack.StackId, "DELETE_IN_PROGRESS") :
          \/ /\ o.kind = "throw"
             /\ Throw("describeStacks")
             /\ polls' = 0
             /\ UNCHANGED <<result, waited>>
          \/ /\ o.kind = "again"
             /\ polls < MaxPolls
             /\ polls' = polls + 1
             /\ UNCHANGED <<pc, err, result, waited>>
          \/ /\ o.kind = "return"
             /\ result' = o.desc
             /\ waited' = o.desc.StackStatus
             /\ polls' = 0
             /\ IF NotDeleted(stack, o.desc)
                THEN Throw("CloudFormation not deleted")
                ELSE pc' = "done" /\ UNCHANGED err
    /\ UNCHANGED <<run, task, accountId, policy, requestedActions, fetchedPolicy, stack,
                   bucket, uploads, template, iam, cform, s3, file, putDoc, putFailed,
                   lacking, reported, describeFault, createReq, validateReq, probed, created, history>>

(***************************************************************************)
(* CloudFormation works on the stack on its own: a creation completes,     *)
(* fails or rolls back, an accepted deletion starts, and completes or      *)
(* fails.                                                                  *)
(***************************************************************************)
Successors(status) ==
    CASE status = "CREATE_IN_PROGRESS" ->
            {"CREATE_COMPLETE", "CREATE_FAILED", "ROLLBACK_IN_PROGRESS"}
      [] status = "ROLLBACK_IN_PROGRESS" -> {"ROLLBACK_COMPLETE"}
      [] status = "DELETE_IN_PROGRESS" -> {"DELETE_COMPLETE", "DELETE_FAILED"}
      [] OTHER -> {}

BackendProgress ==
    /\ \/ /\ deletePending
          /\ cfn' = [cfn EXCEPT !.StackStatus = "DELETE_IN_PROGRESS"]
          /\ deletePending' = FALSE
       \/ /\ ~deletePending
          /\ \E next \in Successors(cfn.StackStatus) :
                cfn' = [cfn EXCEPT !.StackStatus = next,
                                   !.Outputs = IF next = "CREATE_COMPLETE"
                                               THEN StackOutputs(cfn.StackId)
                                               ELSE cfn.Outputs]
          /\ UNCHANGED deletePending
    /\ UNCHANGED <<run, task, pc, err, locals, template, iam, s3, file, trace, observed,
                   created, history>>

(***************************************************************************)
(* The specification of the installer against its backends.                *)
(***************************************************************************)
Next ==
    \/ StartInstall
    \/ StartUninstall
    \/ GetUser
    \/ Synthesize
    \/ PutUserPolicy
    \/ GetUserPolicy
    \/ InstallDescribeStacks
    \/ HeadBucket
    \/ CreateBucket
    \/ Pack
    \/ PutObjects
    \/ \E i \in 1..2 : PutObjectCompletes(i)
    \/ ValidateTemplate
    \/ CreateStack
    \/ InstallWait
    \/ UninstallDescribeStacks
    \/ DeleteStack
    \/ UninstallWait
    \/ BackendProgress

Spec == Init /\ [][Next]_vars

(***************************************************************************)
(* The same under fairness.  The driver is resumed when the request it     *)
(* awaits has settled, so an iteration of the wait of lines 43-50 whose    *)
(* describe is answered is taken when it stays possible (WaitPolled), and  *)
(* so is the fetch of lines 156-161 that is answered with a document       *)
(* (FetchSucceeded); CloudFormation does not stop in a status that has a   *)
(* successor.  Nothing makes a request fail, or succeed at last when it    *)
(* can keep failing.                                                       *)
(***************************************************************************)
WaitPolled == (InstallWait \/ UninstallWait) /\ err' # "describeStacks"
FetchSucceeded == GetUserPolicy /\ pc' # pc

SpecLive ==
    /\ Init /\ [][Next]_vars
    /\ WF_vars(WaitPolled)
    /\ WF_vars(FetchSucceeded)
    /\ WF_vars(BackendProgress)

(***************************************************************************)
(* The specification of policy synthesis: an install whose template is any *)
(* template of at most MaxStatements statements and MaxActions actions,    *)
(* run up to the putUserPolicy request that carries the synthesized        *)
(* document.                                                               *)
(***************************************************************************)
SynthUserArns ==
    UserArns \cup {[service |-> "iam", account |-> "999999999999", resource |-> "root"]}

ResourceChoices ==
    {NoResource, Scalar(DeclaredArn), List(<<DeclaredArn, "arn:aws:s3:::quokka">>)}

\* the statements with exactly k actions
StatementsOf(k) ==
    { Statement("Allow", ActionArray(as), r) : as \in [1..k -> ActionIds], r \in ResourceChoices }

\* the templates of at most n statements with at most k actions in all
RECURSIVE TemplatesOf(_, _)
TemplatesOf(n, k) ==
    IF n = 0 THEN {<<>>}
    ELSE {<<>>} \cup UNION { { <<st>> \o rest : st \in StatementsOf(j),
                                                rest \in TemplatesOf(n - 1, k - j) } :
                             j \in 0..k }

InitSynth ==
    /\ run = 1 /\ task = "install" /\ pc = "getUser" /\ err = ""
    /\ InitLocals /\ InitObserved /\ InitBackends
    /\ buckets = {}
    /\ template \in TemplatesOf(MaxStatements, MaxActions)
    /\ userArn \in SynthUserArns
    /\ storedPolicy = <<>>
    /\ created = 0
    /\ history = <<>>

NextSynth ==
    \/ GetUser
    \/ Synthesize
    \/ PutUserPolicy

SpecSynth == InitSynth /\ [][NextSynth]_vars

(***************************************************************************)
(* Properties.                                                             *)
(***************************************************************************)
Issued(name) == name \in Range(trace)

\* the current invocation is the second of two installs, run one after the
\* other, of which the first brought the stack to CREATE_COMPLETE
SecondInstall ==
    /\ run = 2 /\ task = "install"
    /\ history = <<[task |-> "install", pc |-> "done", waited |-> "CREATE_COMPLETE"]>>

C2_TerminalState ==
    task = "install" =>
        /\ waited \notin {"", "CREATE_COMPLETE"} =>
              /\ pc = "failed" /\ err = "CloudFormation not created"
              /\ ~Issued("writeFile")
        /\ Issued("writeFile") => waited = "CREATE_COMPLETE" /\ pc = "done"
        /\ file # <<>> => file[1].outputs = StackOutputs(file[1].id)

C2_Witness ==
    /\ task = "install"
    /\ waited = "CREATE_FAILED"
    /\ pc = "failed"
    /\ file = <<>>

\* C3 - Uninstall outcome, as claimed: once the wait of an uninstall has
\* returned, the uninstall has thrown if and only if the status returned is
\* not DELETE_COMPLETE.
C3_UninstallOutcome ==
    task = "uninstall" /\ waited # "" =>
        /\ Issued("deleteStack")
        /\ (pc = "failed" <=> waited # "DELETE_COMPLETE")

\* An uninstall whose describeStacks found no stack named Quokka has returned
\* without an error, having issued that one request only (no deleteStack, no
\* poll).
C4_IdempotentUninstallState ==
    task = "uninstall" /\ Issued("describeStacks") /\ stack = NoStack /\ ~describeFault =>
        /\ pc = "done" /\ err = ""
        /\ trace = <<"describeStacks">>

\* C4 - Idempotent uninstall.  An uninstall whose describeStacks found no
\* stack named Quokka has returned without an error, having issued that one
\* request only (no deleteStack, no poll); and the describe step of an
\* uninstall that returns leaves the backends and the result file as they
\* were.
C4_IdempotentUninstall ==
    /\ []C4_IdempotentUninstallState
    /\ [][task = "uninstall" /\ pc = "describeStacks" /\ pc' = "done"
              => UNCHANGED <<cform, s3, iam, file, created>>]_vars

C4_Witness ==
    /\ task = "uninstall"
    /\ pc = "done"
    /\ trace = <<"describeStacks">>
    /\ ~describeFault
    /\ DescribeByName(Consts.stackName) = <<>>

\* C5 - Policy convergence before provisioning, as claimed: an install whose
\* verification found requested actions missing from the fetched policy is
\* still polling or has failed, and has not issued describeStacks.
C5_PolicyConvergence ==
    task = "install" /\ lacking # <<>> =>
        /\ pc \in {"getUserPolicy", "failed"}
        /\ ~Issued("describeStacks")

\* C6 - Policy write failure is fatal, as claimed: an install whose
\* putUserPolicy request was rejected has failed, and putUserPolicy is the
\* last request it issued.
C6_PolicyWriteFatal ==
    task = "install" /\ putFailed =>
        /\ pc = "failed"
        /\ trace[Len(trace)] = "putUserPolicy"

\* the service namespace of each action identifier of ActionIds, read off its
\* text
Namespace(action) ==
    CASE action = S3GetObject -> "s3"
      [] action = S3PutObject -> "s3"
      [] action = S3ListBucket -> "s3"
      [] action = IamGetUser -> "iam"
      [] action = LogsCreateLogGroup -> "logs"
      [] action = ApigatewayGET -> "apigateway"

\* the scope the claim gives for a service namespace
ClaimedScope(service, account) ==
    "arn:aws:" \o service
        \o ":" \o (IF service \in {"s3", "iam"} THEN "" ELSE "us-east-1")
        \o ":" \o (IF service \in {"s3", "apigateway"} THEN "" ELSE account)
        \o ":*"

\* the candidate scopes of a statement
Candidates(statement) ==
    { ClaimedScope(Namespace(a), userArn.account) : a \in Range(statement.Action.items) }

Declared(statement) == statement.Resource.kind # "none"

\* the statements of the document passed to putUserPolicy
Put == putDoc[1]

\* C7 - Policy synthesis respects declared scopes.  The document passed to
\* putUserPolicy has the statements of the template in their order, and every
\* statement that has a Resource in the template is identical in the document
\* (effect, actions, Resource), whatever the other statements are.
C7_DeclaredScopesKept ==
    putDoc # <<>> =>
        /\ Len(Put) = Len(template)
        /\ \A i \in 1..Len(template) : Declared(template[i]) => Put[i] = template[i]

C7_Witness ==
    /\ putDoc # <<>>
    /\ \E i, j \in 1..Len(template) :
          /\ Declared(template[i]) /\ template[i].Action.items # <<>>
          /\ Put[i] = template[i]
          /\ ~Declared(template[j])
          /\ Put[j] # template[j]

\* C8 - Resource scope derivation.  For a statement without Resource, the
\* scopes put into its Resource are exactly the scopes
\* 'arn:aws:' + s + ':' + R + ':' + A + ':*' of the service namespaces s of
\* its actions, R empty for s3 and iam and 'us-east-1' otherwise, A empty for
\* s3 and apigateway and the caller's account id otherwise; the actions
\* ['s3:GetObject', 's3:PutObject'] give the single scope 'arn:aws:s3:::*'.
C8_ScopeDerivation ==
    putDoc # <<>> =>
        \A i \in 1..Len(template) :
            ~Declared(template[i]) =>
                /\ Range(Put[i].Resource.items) = Candidates(template[i])
                /\ template[i].Action.items = <<S3GetObject, S3PutObject>>
                      => Put[i].Resource = Scalar("arn:aws:s3:::*")

C8_Witness ==
    /\ putDoc # <<>>
    /\ \E i \in 1..Len(template) :
          /\ ~Declared(template[i])
          /\ template[i].Action.items = <<S3GetObject, S3PutObject>>
          /\ Put[i].Resource = Scalar("arn:aws:s3:::*")

\* the Resource the claim gives a statement that had none
ShapeOf(statement, resource) ==
    IF Cardinality(Candidates(statement)) = 1
    THEN \E scope \in Candidates(statement) : resource = Scalar(scope)
    ELSE /\ resource.kind = "list"
         /\ Range(resource.items) = Candidates(statement)
         /\ Len(resource.items) = Cardinality(Candidates(statement))

\* C9 - Synthesis output shape, as claimed: after synthesis every statement
\* has a Resource, and a statement that had none has a single scalar scope
\* when its actions give exactly one distinct candidate scope, and otherwise
\* the list of all distinct candidate scopes without duplicates.
C9_OutputShape ==
    putDoc # <<>> =>
        \A i \in 1..Len(template) :
            /\ Put[i].Resource.kind # "none"
            /\ ~Declared(template[i]) => ShapeOf(template[i], Put[i].Resource)

\* C9, amended - after synthesis every statement that had a Resource or has
\* at least one action has a Resource, and a statement with neither is left
\* without one; a statement that had none and has actions has a single scalar
\* scope when its actions give exactly one distinct candidate scope, and
\* otherwise the list of all distinct candidate scopes without duplicates.
C9_OutputShapeAmended ==
    putDoc # <<>> =>
        \A i \in 1..Len(template) :
            /\ Put[i].Resource.kind # "none"
                  <=> (Declared(template[i]) \/ template[i].Action.items # <<>>)
            /\ ~Declared(template[i]) /\ template[i].Action.items # <<>>
                  => ShapeOf(template[i], Put[i].Resource)

C9_Witness ==
    /\ putDoc # <<>>
    /\ \E i \in 1..Len(template) :
          /\ ~Declared(template[i])
          /\ Put[i].Resource.kind = "list"
          /\ Len(Put[i].Resource.items) = 2
    /\ \E i \in 1..Len(template) :
          /\ ~Declared(template[i])
          /\ template[i].Action.items = <<>>
          /\ Put[i].Resource.kind = "none"

(***************************************************************************)
(* Staging and stack creation.                                             *)
(***************************************************************************)
\* the number of requests named name the invocation has issued (a polling
\* loop counts once)
Count(name) == Len(SelectSeq(trace, LAMBDA op : op = name))

\* an undeclared statement with an action identifier that has no ":"
Malformed(statement) ==
    /\ ~Declared(statement)
    /\ statement.Action.isArray
    /\ \E a \in Range(statement.Action.items) : IndexOf(a, ":") = -1

\* C11 - Malformed policy rejection.  An install whose template has a
\* statement without Resource that contains an action identifier without the
\* ":" delimiter issues no putUserPolicy request, and once it is past
\* synthesis it has failed.
C11_MalformedRejected ==
    task = "install" /\ (\E i \in 1..Len(template) : Malformed(template[i])) =>
        /\ ~Issued("putUserPolicy")
        /\ pc \notin {"getUser", "synthesize"} => pc = "failed"

\* C12 - Concurrent-upload correctness.  The two putObject requests of an
\* install are started in one step; validateTemplate is issued only when both
\* have succeeded; as soon as one has failed the install has failed with that
\* error and issues neither validateTemplate nor createStack; and the object
\* of a request that succeeded is in the bucket.
C12_ConcurrentUpload ==
    task = "install" =>
        /\ Len(uploads) \in {0, 2}
        /\ Issued("validateTemplate") =>
              Len(uploads) = 2 /\ \A i \in 1..2 : uploads[i].state = "ok"
        /\ (\E i \in 1..Len(uploads) : uploads[i].state = "failed") =>
              /\ pc = "failed" /\ err = "putObject"
              /\ ~Issued("validateTemplate") /\ ~Issued("createStack")
        /\ \A i \in 1..Len(uploads) :
              uploads[i].state = "ok" => uploads[i].params \in objects

C12_Witness ==
    /\ task = "install" /\ pc = "failed" /\ err = "putObject"
    /\ \E i, j \in 1..Len(uploads) :
          /\ uploads[i].state = "failed"
          /\ uploads[j].state = "ok"
          /\ uploads[j].params \in objects
          /\ uploads[j].params.Key # uploads[i].params.Key

\* C13 - Staged objects land at their own keys.  When both putObject requests
\* of an install have succeeded, the first carried the key
\* deployments/quokka-lambda.zip with the archive as content and the second
\* the key deployments/quokka.cform with the template as content.
C13_OwnKeys ==
    /\ task = "install" /\ Len(uploads) = 2
    /\ \A i \in 1..2 : uploads[i].state = "ok"
    =>
    /\ uploads[1].params.Key = "deployments/quokka-lambda.zip"
    /\ uploads[1].params.Body = "quokka-lambda.zip"
    /\ uploads[2].params.Key = "deployments/quokka.cform"
    /\ uploads[2].params.Body = "quokka.cform"

\* a request named a was issued before a request named b
Before(a, b) ==
    \E i, j \in 1..Len(trace) : i < j /\ trace[i] = a /\ trace[j] = b

\* C14 - Validate before create.  An install that has issued createStack has
\* before it issued one validateTemplate, on the URL of the template key in
\* the staging bucket, and that request did not fail; the createStack request
\* names the same URL.  An install whose validateTemplate failed has failed,
\* has issued no createStack and written no file, and its bucket and the
\* objects it uploaded are still there.
C14_ValidateBeforeCreate ==
    task = "install" =>
        /\ validateReq # <<>> =>
              validateReq[1].TemplateURL
                 = "http://s3.amazonaws.com/" \o bucket.Bucket \o "/deployments/quokka.cform"
        /\ Issued("createStack") =>
              /\ Count("validateTemplate") = 1
              /\ Before("validateTemplate", "createStack")
              /\ ~Before("createStack", "validateTemplate")
              /\ err # "validateTemplate"
              /\ createReq[1].TemplateURL = validateReq[1].TemplateURL
        /\ err = "validateTemplate" =>
              /\ pc = "failed"
              /\ ~Issued("createStack") /\ createReq = <<>>
              /\ ~Issued("writeFile")
              /\ bucket.Bucket \in buckets
              /\ \A i \in 1..Len(uploads) : uploads[i].params \in objects

C14_Witness ==
    /\ task = "install" /\ pc = "failed" /\ err = "validateTemplate"
    /\ validateReq # <<>>
    /\ Len(uploads) = 2
    /\ \A i \in 1..2 : uploads[i].state = "ok" /\ uploads[i].params \in objects

\* C15 - Create request contents.  The createStack request of an install
\* names the stack Quokka, has exactly the capability CAPABILITY_IAM and the
\* parameters Email, UID, CodeBucket, CodeKey in that order; CodeBucket is
\* the bucket of the probe and of both uploads, CodeKey is the key of the
\* upload that carried the archive, and the template URL is that of the key
\* of the upload that carried the template.
C15_CreateRequest ==
    task = "install" /\ createReq # <<>> =>
        LET req == createReq[1]
            value == [i \in 1..4 |-> req.Parameters[i].ParameterValue]
        IN  /\ req.StackName = "Quokka"
            /\ req.Capabilities = <<"CAPABILITY_IAM">>
            /\ Len(req.Parameters) = 4
            /\ [i \in 1..4 |-> req.Parameters[i].ParameterKey]
                  = <<"Email", "UID", "CodeBucket", "CodeKey">>
            /\ value[3] = bucket.Bucket
            /\ value[3] \in buckets
            /\ \A i \in 1..Len(uploads) : uploads[i].params.Bucket = value[3]
            /\ \E i \in 1..Len(uploads) :
                  /\ uploads[i].params.Body = "quokka-lambda.zip"
                  /\ uploads[i].params.Key = value[4]
            /\ \E i \in 1..Len(uploads) :
                  /\ uploads[i].params.Body = "quokka.cform"
                  /\ req.TemplateURL
                        = "http://s3.amazonaws.com/" \o value[3] \o "/" \o uploads[i].params.Key

\* C16 - No retry and no rollback.  An invocation has issued at most one
\* createStack and at most one deleteStack request; an install has issued no
\* deleteStack and an uninstall no createStack; and once its wait has returned
\* a status that is not the completed one, the describe of the wait is the
\* last request of the invocation.
C16_NoRetryNoRollback ==
    /\ Count("createStack") <= 1
    /\ Count("deleteStack") <= 1
    /\ task = "install" => ~Issued("deleteStack")
    /\ task = "uninstall" => ~Issued("createStack")
    /\ task = "install" /\ waited \notin {"", "CREATE_COMPLETE"} =>
          pc = "failed" /\ trace[Len(trace)] = "describeStacksById"
    /\ task = "uninstall" /\ waited # "" =>
          pc \in {"done", "failed"} /\ trace[Len(trace)] = "describeStacksById"

C16_Witness ==
    /\ task = "install" /\ pc = "failed"
    /\ waited \in {"CREATE_FAILED", "ROLLBACK_COMPLETE"}
    /\ Count("createStack") = 1
    /\ cfn.StackStatus = waited

\* the status the wait of the invocation is given as inProgress (lines 80,
\* 303) and the variable its result is assigned to
WaitedOn == IF task = "install" THEN "CREATE_IN_PROGRESS" ELSE "DELETE_IN_PROGRESS"
Returned == IF task = "install" THEN stack ELSE result

C17_ReturnedState ==
    waited # "" =>
        /\ waited # WaitedOn
        /\ Returned.StackStatus = waited
        /\ pc # "wait"

\* C17 - waitForStackStatus.  A wait that has returned returned a descriptor
\* whose status differs from inProgress, and the driver is no longer in the
\* wait; a poll after which the wait goes on answered inProgress; the wait
\* returns the descriptor of the describe response of its last poll; and once
\* it has returned the invocation issues no further describe.
C17_WaitForStackStatus ==
    /\ []C17_ReturnedState
    /\ [][ /\ pc = "wait" /\ polls' = polls + 1 =>
                pc' = "wait" /\ waited' = "" /\ cfn.StackStatus = WaitedOn
           /\ waited = "" /\ waited' # "" =>
                /\ pc = "wait"
                /\ cfn.StackStatus # WaitedOn
                /\ Returned' = cfn
           /\ waited # "" /\ run' = run =>
                Count("describeStacksById")' = Count("describeStacksById")
                   /\ polls' = polls ]_vars

C17_Witness ==
    /\ task = "uninstall" /\ waited = "DELETE_COMPLETE"
    /\ result = cfn
    /\ Count("describeStacksById") = 1

\* C18 - Ensure-staging.  An install issues createBucket only after its
\* headBucket probe failed, and after a failed probe createBucket is its next
\* request; after a probe that succeeded it issues no createBucket; and an
\* install whose createBucket failed has failed without packaging and without
\* a putObject, validateTemplate or createStack request.
C18_EnsureStaging ==
    task = "install" =>
        /\ Count("headBucket") <= 1 /\ Count("createBucket") <= 1
        /\ Issued("createBucket") =>
              probed = "failed" /\ Before("headBucket", "createBucket")
        /\ probed = "failed" => pc = "createBucket" \/ Issued("createBucket")
        /\ probed = "ok" => pc # "createBucket" /\ ~Issued("createBucket")
        /\ err = "createBucket" =>
              /\ pc = "failed"
              /\ trace[Len(trace)] = "createBucket"
              /\ ~Issued("pack") /\ ~Issued("putObject")
              /\ ~Issued("validateTemplate") /\ ~Issued("createStack")
              /\ uploads = <<>>

C18_Witness ==
    /\ task = "install" /\ pc = "failed" /\ err = "createBucket"
    /\ probed = "failed"
    /\ bucket.Bucket \notin buckets

C19_RecordState ==
    /\ Count("writeFile") <= 1
    /\ task = "install" /\ pc = "done" /\ waited = "CREATE_COMPLETE" => Issued("writeFile")
    /\ Issued("writeFile") =>
          /\ task = "install" /\ pc = "done"
          /\ Issued("createStack")
          /\ waited = "CREATE_COMPLETE" /\ stack.StackStatus = "CREATE_COMPLETE"
          /\ Len(trace) >= 2
          /\ trace[Len(trace) - 1] = "describeStacksById"
          /\ trace[Len(trace)] = "writeFile"
          /\ file = <<[name |-> stack.StackName, id |-> result.StackId,
                       createdAt |-> stack.CreationTime, outputs |-> stack.Outputs]>>

\* C19 - InstallationRecord contents.  An invocation writes the result file
\* at most once; an install that ended after its wait returned
\* CREATE_COMPLETE has written it, as its last step, right after the wait;
\* the file holds name, createdAt and outputs of the descriptor the wait
\* returned and the id that createStack returned; and the file changes only
\* in a step that is such a write.
C19_InstallationRecord ==
    /\ []C19_RecordState
    /\ [][file' # file =>
             /\ run' = run /\ task = "install" /\ pc = "wait"
             /\ Count("writeFile") = 0 /\ Count("writeFile")' = 1]_vars

C19_Witness ==
    /\ task = "install" /\ pc = "done" /\ Issued("writeFile")
    /\ file # <<>>
    /\ file[1].id = result.StackId
    /\ file[1].outputs = stack.Outputs /\ file[1].outputs # <<>>

\* the requests of an install in the order of the claim, after the getUser
\* that opens the install, with or without the optional createBucket
Stages(withCreateBucket) ==
    <<"getUser", "putUserPolicy", "getUserPolicy", "describeStacks", "headBucket">>
    \o (IF withCreateBucket THEN <<"createBucket">> ELSE <<>>)
    \o <<"pack", "putObject", "putObject", "validateTemplate", "createStack",
         "describeStacksById", "writeFile">>

IsPrefix(s, t) == Len(s) <= Len(t) /\ s = SubSeq(t, 1, Len(s))

\* the position of the install driver, as a number that grows along the
\* stages
StageOf(p) ==
    CASE p \in {"idle", "getUser"} -> 1
      [] p = "synthesize" -> 2
      [] p = "putUserPolicy" -> 3
      [] p = "getUserPolicy" -> 4
      [] p = "describeStacks" -> 5
      [] p = "headBucket" -> 6
      [] p = "createBucket" -> 7
      [] p = "pack" -> 8
      [] p = "putObject" -> 9
      [] p = "uploading" -> 10
      [] p = "validateTemplate" -> 11
      [] p = "createStack" -> 12
      [] p = "wait" -> 13
      [] p \in {"done", "failed"} -> 14

C20_OrderState ==
    task = "install" =>
        \E withCreateBucket \in BOOLEAN : IsPrefix(trace, Stages(withCreateBucket))

\* C20 - Stage ordering.  The requests of an install, a polling loop counted
\* once, are a prefix of: putUserPolicy, getUserPolicy, describeStacks by
\* name, headBucket, optionally createBucket, pack, two putObject,
\* validateTemplate, createStack, describeStacks by id, the write of the
\* result file (after the getUser that opens the install); and the driver
\* never goes back to an earlier stage, and polls only inside the two loops.
C20_StageOrdering ==
    /\ []C20_OrderState
    /\ [][task = "install" /\ run' = run =>
             /\ StageOf(pc') >= StageOf(pc)
             /\ polls' > polls => pc' = pc /\ pc \in {"getUserPolicy", "wait"}]_vars

C20_Witness ==
    /\ task = "install" /\ pc = "done"
    /\ trace = Stages(TRUE)

(***************************************************************************)
(* Waiting, polling and the treatment of describe failures.                *)
(***************************************************************************)
\* C21 - Uninstall waits for a deletion-terminal state.  The wait of an
\* uninstall returns only a descriptor whose status is DELETE_COMPLETE or
\* DELETE_FAILED, never one that still carries the status the stack had
\* before its deletion started.
C21_DeletionTerminal ==
    task = "uninstall" /\ waited # "" =>
        /\ waited \in {"DELETE_COMPLETE", "DELETE_FAILED"}
        /\ result.StackStatus \in {"DELETE_COMPLETE", "DELETE_FAILED"}

\* C22 - Liveness of the stack wait.  A wait whose describes are answered
\* returns; a wait is left only by returning, on a status that differs from
\* inProgress, or by a describe that failed; and as long as the stack is in
\* the status inProgress and the describes are answered the wait goes on,
\* whatever the number of polls: it raises no timeout error.
C22_WaitLiveness ==
    /\ (pc = "wait") ~> (waited # "" \/ err = "describeStacks")
    /\ [][pc = "wait" =>
             /\ pc' # "wait" =>
                   \/ waited' # "" /\ waited' # WaitedOn /\ cfn.StackStatus # WaitedOn
                   \/ err' = "describeStacks"
             /\ cfn.StackStatus = WaitedOn /\ err' # "describeStacks" =>
                   pc' = "wait" /\ waited' = "" /\ err' = err]_vars

C22_Witness ==
    /\ pc = "wait" /\ polls = MaxPolls
    /\ cfn.StackStatus = WaitedOn
    /\ err = "" /\ waited = ""

\* a document is stored under the installer's policy name
PolicyStored == storedPolicy # <<>> \/ priorPolicy # <<>>

\* C23 - Policy verification poll.  An install in the loop has no fetched
\* document; the loop is left only by a fetch that is answered with a
\* document, to the describe of the stack and without an error; while no
\* document is stored the install stays in the loop; and when a document is
\* stored and a fetch that can succeed does, the install leaves the loop.
C23_PolicyPoll ==
    /\ (pc = "getUserPolicy" /\ PolicyStored) ~> (pc # "getUserPolicy")
    /\ [](task = "install" /\ pc = "getUserPolicy" => fetchedPolicy = <<>> /\ err = "")
    /\ [][pc = "getUserPolicy" =>
             /\ pc' # pc =>
                   /\ fetchedPolicy' # <<>> /\ fetchedPolicy' \in {storedPolicy, priorPolicy}
                   /\ pc' = "describeStacks" /\ err' = err
             /\ ~PolicyStored => pc' = pc /\ fetchedPolicy' = <<>>]_vars

C23_Witness ==
    /\ task = "install" /\ pc = "getUserPolicy"
    /\ putFailed /\ ~PolicyStored
    /\ polls = MaxPolls

\* the actions of all statements of the template
AllActions == UNION { Range(template[i].Action.items) : i \in 1..Len(template) }

\* C24 - Scope of the verified action set.  After synthesis and until the
\* stored policy is fetched, the requested actions that verification will
\* compare with the stored policy are the actions of all statements of the
\* template, those of the statements that came with a Resource included.
C24_VerifiedScope ==
    task = "install" /\ pc \in {"putUserPolicy", "getUserPolicy"} =>
        Range(requestedActions) = AllActions

\* the install returned at the describe of lines 192-207
ShortCircuited == task = "install" /\ pc = "done" /\ ~Issued("headBucket")

\* the current invocation is an install, and an earlier install ended with
\* its wait returning a failed terminal status and was followed by installs
\* only
AfterFailedInstall ==
    /\ task = "install"
    /\ \E k \in 1..Len(history) :
          /\ history[k].task = "install" /\ history[k].pc = "failed"
          /\ history[k].waited \in {"CREATE_FAILED", "ROLLBACK_COMPLETE"}
          /\ \A j \in (k + 1)..Len(history) : history[j].task = "install"

C25_ShortCircuitState ==
    /\ ShortCircuited =>
          /\ err = ""
          /\ trace[Len(trace)] = "describeStacks"
          /\ ~Issued("createStack") /\ ~Issued("writeFile")
          /\ reported = stack.Outputs
    /\ AfterFailedInstall =>
          /\ cfn.StackStatus \in {"CREATE_FAILED", "ROLLBACK_COMPLETE"}
          /\ ~Issued("writeFile")
          /\ Issued("describeStacks") /\ ~describeFault => ShortCircuited

\* C25 - Short-circuit ignores status.  An install whose describeStacks by
\* name is answered with a descriptor returns at once, whatever the status of
\* the stack: without an error, with the outputs of that stack reported, and
\* with no createStack and no write of the result file.  In an install that
\* follows an install whose wait returned a failed terminal status, with
\* installs only in between, the stack is still in that failed status and
\* the result file is not written.
C25_ShortCircuit ==
    /\ []C25_ShortCircuitState
    /\ [][ /\ task = "install" /\ pc = "describeStacks" /\ pc' # pc
           /\ DescribeByName(Consts.stackName) # <<>> /\ ~describeFault'
           => /\ pc' = "done" /\ err' = ""
              /\ stack' = cfn /\ reported' = cfn.Outputs
              /\ file' = file /\ created' = created ]_vars

C25_Witness ==
    /\ AfterFailedInstall /\ ShortCircuited
    /\ stack.StackStatus \in {"CREATE_FAILED", "ROLLBACK_COMPLETE"}
    /\ stack = cfn

C26_DescribeFailureState ==
    describeFault =>
        /\ task = "uninstall" =>
              /\ pc = "done" /\ err = ""
              /\ trace = <<"describeStacks">>
              /\ ~Issued("deleteStack")
        /\ task = "install" =>
              /\ ~ShortCircuited
              /\ err = "describeStacks" => Issued("describeStacksById")
              /\ pc = "headBucket" \/ Issued("headBucket")
              /\ \E withCreateBucket \in BOOLEAN : IsPrefix(trace, Stages(withCreateBucket))

\* C26 - Describe failures are treated as 'not found'.  When the describe by
\* name fails although the stack exists, an uninstall returns without an
\* error, without a deleteStack request and with the stack untouched, and an
\* install goes on to the probe of the staging bucket and from there along
\* the stages to createStack, as it does when there is no stack.
C26_DescribeFailure ==
    /\ []C26_DescribeFailureState
    /\ [][~describeFault /\ describeFault' =>
             /\ pc = "describeStacks"
             /\ DescribeByName(Consts.stackName) # <<>>
             /\ cfn' = cfn /\ deletePending' = deletePending
             /\ err' = ""
             /\ pc' = IF task = "uninstall" THEN "done" ELSE "headBucket"]_vars

C26_Witness ==
    /\ task = "install" /\ describeFault
    /\ Issued("createStack")
    /\ cfn.StackStatus = "CREATE_COMPLETE"
    /\ created = 2

====
